---- MODULE Spec2Model ----
(***************************************************************************)
(* Model of the tile-based parallel Bayer demosaic of soma_media           *)
(* (src/src/demosaic.rs): BayerPattern::color_at, and the four phases of   *)
(* ParallelDemosaic::demosaic: extract_tile, the rayon map over            *)
(* demosaic_tile / demosaic_bilinear, and combine_tiles.                   *)
(*                                                                         *)
(* Buffers are sequences; the element the code calls buf[i] is buf[i+1].   *)
(* f32 arithmetic: blend weights are kept as integer numerators over the   *)
(* common denominator overlap*overlap, and 255/(white-black) as a          *)
(* fraction.  For overlaps that are 0 or a power of two and the levels used here   *)
(* every intermediate f32 value is exactly representable, so the integer   *)
(* computation is the f32 computation; NaN and +inf are handled as the     *)
(* code's casts and f32::min handle them.                                  *)
(***************************************************************************)
EXTENDS Integers, Sequences, FiniteSets, TLC

\* ------------------------------------------------------------------ bounds
MaxWidth == 6
MaxHeight == 3
MaxTileSize == 3
MaxOverlapLog == 1
MaxTiles == 4
MaxCoord == 8

\* overlap set by ParallelDemosaic::default and ::with_tile_size
DefaultOverlap == 16

Patterns == {"RGGB", "GRBG", "GBRG", "BGGR"}
Widths == 0..MaxWidth
Heights == 0..MaxHeight
TileSizes == 1..MaxTileSize
\* powers of two keep every blend weight exactly representable in f32
Overlaps == {0, DefaultOverlap} \cup {2 ^ e : e \in 0..MaxOverlapLog}

\* ------------------------------------------------------------ arithmetic
Min(a, b) == IF a < b THEN a ELSE b

\* usize/u16 saturating_sub
SaturatingSub(a, b) == IF a > b THEN a - b ELSE 0

\* slice[i] with the code's 0-based index; the value 0 stands for a read
\* that the bounds check would have stopped (the panic is tracked apart).
Get(s, i) == IF i >= 0 /\ i < Len(s) THEN s[i + 1] ELSE 0

\* ------------------------------------------------------------ BayerPattern
\* 0 = Red, 1 = Green, 2 = Blue; 3 stands for an unreachable!() arm.
MutColorAt(pattern, x, y) ==
    LET x_odd == x % 2
        y_odd == y % 2
    IN  CASE pattern = "RGGB" ->
               (CASE x_odd = 0 /\ y_odd = 0 -> 0
                  [] x_odd = 1 /\ y_odd = 0 -> 1
                  [] x_odd = 0 /\ y_odd = 1 -> 1
                  [] x_odd = 1 /\ y_odd = 1 -> 1
                  [] OTHER -> 3)
          [] pattern = "GRBG" ->
               (CASE x_odd = 0 /\ y_odd = 0 -> 1
                  [] x_odd = 1 /\ y_odd = 0 -> 0
                  [] x_odd = 0 /\ y_odd = 1 -> 2
                  [] x_odd = 1 /\ y_odd = 1 -> 1
                  [] OTHER -> 3)
          [] pattern = "GBRG" ->
               (CASE x_odd = 0 /\ y_odd = 0 -> 1
                  [] x_odd = 1 /\ y_odd = 0 -> 2
                  [] x_odd = 0 /\ y_odd = 1 -> 0
                  [] x_odd = 1 /\ y_odd = 1 -> 1
                  [] OTHER -> 3)
          [] pattern = "BGGR" ->
               (CASE x_odd = 0 /\ y_odd = 0 -> 2
                  [] x_odd = 1 /\ y_odd = 0 -> 1
                  [] x_odd = 0 /\ y_odd = 1 -> 1
                  [] x_odd = 1 /\ y_odd = 1 -> 0
                  [] OTHER -> 3)

ColorAt(pattern, x, y) ==
    LET x_odd == x % 2
        y_odd == y % 2
    IN  CASE pattern = "RGGB" ->
               (CASE x_odd = 0 /\ y_odd = 0 -> 0
                  [] x_odd = 1 /\ y_odd = 0 -> 1
                  [] x_odd = 0 /\ y_odd = 1 -> 1
                  [] x_odd = 1 /\ y_odd = 1 -> 2
                  [] OTHER -> 3)
          [] pattern = "GRBG" ->
               (CASE x_odd = 0 /\ y_odd = 0 -> 1
                  [] x_odd = 1 /\ y_odd = 0 -> 0
                  [] x_odd = 0 /\ y_odd = 1 -> 2
                  [] x_odd = 1 /\ y_odd = 1 -> 1
                  [] OTHER -> 3)
          [] pattern = "GBRG" ->
               (CASE x_odd = 0 /\ y_odd = 0 -> 1
                  [] x_odd = 1 /\ y_odd = 0 -> 2
                  [] x_odd = 0 /\ y_odd = 1 -> 0
                  [] x_odd = 1 /\ y_odd = 1 -> 1
                  [] OTHER -> 3)
          [] pattern = "BGGR" ->
               (CASE x_odd = 0 /\ y_odd = 0 -> 2
                  [] x_odd = 1 /\ y_odd = 0 -> 1
                  [] x_odd = 0 /\ y_odd = 1 -> 1
                  [] x_odd = 1 /\ y_odd = 1 -> 0
                  [] OTHER -> 3)

\* --------------------------------------------------------------- tile grid
\* demosaic, lines 194-195: (len + tile_size - 1) / tile_size
MutTileCount(len, tile_size) == len \div tile_size

TileCount(len, tile_size) == (len + tile_size - 1) \div tile_size

\* extract_tile, lines 233-236, one axis
MutTileStart(t, tile_size, ov) == t * tile_size

TileStart(t, tile_size, ov) == SaturatingSub(t * tile_size, ov)

MutTileEnd(t, tile_size, ov, full) == (t + 1) * tile_size + ov

TileEnd(t, tile_size, ov, full) == Min((t + 1) * tile_size + ov, full)

\* extract_tile, line 248: the row is copied only when it lies in the buffer
MutRowFits(src_offset, tile_width, len) == src_offset < len

RowFits(src_offset, tile_width, len) == src_offset + tile_width <= len

ExtractTile(bayer, full_width, full_height, tile_x, tile_y, tile_size, ov) ==
    LET start_x == TileStart(tile_x, tile_size, ov)
        start_y == TileStart(tile_y, tile_size, ov)
        end_x == TileEnd(tile_x, tile_size, ov, full_width)
        end_y == TileEnd(tile_y, tile_size, ov, full_height)
        tile_width == end_x - start_x
        tile_height == end_y - start_y
    IN  [data |-> [k \in 1..(tile_width * tile_height) |->
                     LET y == (k - 1) \div tile_width
                         x == (k - 1) % tile_width
                         src_offset == (start_y + y) * full_width + start_x
                     IN  IF RowFits(src_offset, tile_width, Len(bayer))
                         THEN Get(bayer, src_offset + x)
                         ELSE 0],
         x |-> start_x,
         y |-> start_y,
         width |-> tile_width,
         height |-> tile_height,
         overlap |-> ov]

\* extract_tile panics: usize underflow of end - start, or a copied row
\* whose source slice leaves the buffer.
ExtractTilePanics(bayer, full_width, full_height, tile_x, tile_y, tile_size, ov) ==
    LET start_x == TileStart(tile_x, tile_size, ov)
        start_y == TileStart(tile_y, tile_size, ov)
        end_x == TileEnd(tile_x, tile_size, ov, full_width)
        end_y == TileEnd(tile_y, tile_size, ov, full_height)
    IN  \/ end_x < start_x
        \/ end_y < start_y
        \/ \E y \in 0..(end_y - start_y - 1) :
             LET src_offset == (start_y + y) * full_width + start_x
             IN  /\ RowFits(src_offset, end_x - start_x, Len(bayer))
                 /\ src_offset + (end_x - start_x) > Len(bayer)

\* ------------------------------------------------------- demosaic_bilinear
\* lines 314-315: for y in 1..height.saturating_sub(1), x likewise
MutInLoopRange(x, y, width, height) ==
    /\ x < SaturatingSub(width, 1)
    /\ y >= 1 /\ y < SaturatingSub(height, 1)

InLoopRange(x, y, width, height) ==
    /\ x >= 1 /\ x < SaturatingSub(width, 1)
    /\ y >= 1 /\ y < SaturatingSub(height, 1)

\* lines 316-317: global_x = offset_x + x
MutGlobalCoord(offset, local) == local

GlobalCoord(offset, local) == offset + local

\* bayer[i].saturating_sub(black_level)
Sample(bayer, i, black_level) == SaturatingSub(Get(bayer, i), black_level)

\* lines 339-340: is the Green site on a row that holds Red samples?
MutOnRedRow(pattern, global_x, global_y) ==
    \/ ColorAt(pattern, global_x, SaturatingSub(global_y, 1)) = 0
    \/ ColorAt(pattern, global_x, global_y + 1) = 0

OnRedRow(pattern, global_x, global_y) ==
    \/ ColorAt(pattern, SaturatingSub(global_x, 1), global_y) = 0
    \/ ColorAt(pattern, global_x + 1, global_y) = 0

\* lines 323-371: the (r, g, b) of the pixel at tile index idx
PixelRGB(bayer, width, idx, global_x, global_y, pattern, black_level) ==
    LET color == ColorAt(pattern, global_x, global_y)
        pixel == Sample(bayer, idx, black_level)
        cross == (Sample(bayer, idx - 1, black_level)
                  + Sample(bayer, idx + 1, black_level)
                  + Sample(bayer, idx - width, black_level)
                  + Sample(bayer, idx + width, black_level)) \div 4
        diag == (Sample(bayer, idx - width - 1, black_level)
                 + Sample(bayer, idx - width + 1, black_level)
                 + Sample(bayer, idx + width - 1, black_level)
                 + Sample(bayer, idx + width + 1, black_level)) \div 4
        horiz == (Sample(bayer, idx - 1, black_level)
                  + Sample(bayer, idx + 1, black_level)) \div 2
        vert == (Sample(bayer, idx - width, black_level)
                 + Sample(bayer, idx + width, black_level)) \div 2
        on_red_row == OnRedRow(pattern, global_x, global_y)
    IN  CASE color = 0 -> <<pixel, cross, diag>>
          [] color = 1 -> IF on_red_row THEN <<horiz, pixel, vert>>
                                        ELSE <<vert, pixel, horiz>>
          [] color = 2 -> <<diag, cross, pixel>>
          [] OTHER -> <<0, 0, 0>>

\* line 311: scale = 255.0 / range as f32, an f32 with a 24-bit mantissa:
\* scale = ScaleMant(range) / 2 ^ ScaleExp(range), the quotient rounded to
\* nearest, ties to even (for 0 < range < 1024)
ScaleExp(range) ==
    CHOOSE k \in 16..26 :
       /\ 128 * range <= 255 * 2 ^ (k - 16)
       /\ 255 * 2 ^ (k - 16) < 256 * range

ScaleMant(range) ==
    LET k == ScaleExp(range)
        q1 == (255 * 2 ^ (k - 12)) \div range
        r1 == (255 * 2 ^ (k - 12)) % range
        m == q1 * 4096 + ((r1 * 4096) \div range)
        r2 == (r1 * 4096) % range
    IN  IF 2 * r2 > range \/ (2 * r2 = range /\ m % 2 = 1) THEN m + 1 ELSE m

\* floor(log2(i)) for 1 <= i < 256
Log2Floor(i) == CHOOSE j \in 0..7 : 2 ^ j <= i /\ i < 2 ^ (j + 1)

\* lines 375-377: (v as f32 * scale).min(255.0) as u8 for v < 65536.  The
\* product v * m / 2^k is rounded to the nearest f32 before the cast
\* truncates it, so a product within half an ulp below an integer becomes
\* that integer; the 40-bit product is kept in two halves.
F32ScaleToU8(v, m, k) ==
    LET a == v * (m \div 4096)
        b == v * (m % 4096)
        t == a + (b \div 4096)
        whole == t \div 2 ^ (k - 12)
        frac == (t % 2 ^ (k - 12)) * 4096 + (b % 4096)
        e == k + (IF whole = 0 THEN -1 ELSE Log2Floor(whole)) - 24
    IN  IF whole >= 255 THEN 255
        ELSE IF frac = 0 THEN whole
        ELSE IF e >= 0 /\ 2 ^ k - frac <= 2 ^ e THEN whole + 1
        ELSE whole

\* lines 311, 375-377: ((v as f32 * scale).min(255.0)) as u8 with
\* scale = 255.0 / white.saturating_sub(black) as f32.  A zero divisor makes
\* scale +inf; v * inf is +inf or NaN, f32::min(255.0) turns both into 255.0.
ScaleToU8(v, black_level, white_level) ==
    LET range == SaturatingSub(white_level, black_level)
    IN  IF range = 0
        THEN 255
        ELSE F32ScaleToU8(v, ScaleMant(range), ScaleExp(range))

DemosaicBilinear(bayer, width, height, offset_x, offset_y, pattern, black_level, white_level) ==
    [k \in 1..(width * height * 3) |->
       LET idx == (k - 1) \div 3
           ch == ((k - 1) % 3) + 1
           x == idx % width
           y == idx \div width
       IN  IF InLoopRange(x, y, width, height)
           THEN ScaleToU8(PixelRGB(bayer, width, idx,
                                   GlobalCoord(offset_x, x),
                                   GlobalCoord(offset_y, y),
                                   pattern, black_level)[ch],
                          black_level, white_level)
           ELSE 0]

\* offsets from idx that the arm for `color` reads (lines 321-368)
ReadOffsets(color, width) ==
    IF color = 1
    THEN {0, -1, 1, -width, width}
    ELSE IF color \in {0, 2}
    THEN {0, -1, 1, -width, width,
          -width - 1, -width + 1, width - 1, width + 1}
    ELSE {0}

\* demosaic_bilinear panics: some bayer[..] index of a visited pixel is
\* below 0 (usize underflow) or not below bayer.len()
BilinearPanics(bayer, width, height, offset_x, offset_y, pattern) ==
    \E x \in 0..(width - 1), y \in 0..(height - 1) :
       /\ InLoopRange(x, y, width, height)
       /\ \E off \in ReadOffsets(ColorAt(pattern, GlobalCoord(offset_x, x),
                                         GlobalCoord(offset_y, y)), width) :
            LET i == y * width + x + off
            IN  i < 0 \/ i >= Len(bayer)

\* demosaic_tile, lines 265-297 (all three algorithm arms call
\* demosaic_bilinear with the same arguments)
DemosaicTile(tile, pattern, black_level, white_level) ==
    [rgb |-> DemosaicBilinear(tile.data, tile.width, tile.height,
                              tile.x, tile.y, pattern, black_level, white_level),
     x |-> tile.x,
     y |-> tile.y,
     width |-> tile.width,
     height |-> tile.height,
     overlap |-> tile.overlap]

DemosaicTilePanics(tile, pattern) ==
    BilinearPanics(tile.data, tile.width, tile.height, tile.x, tile.y, pattern)

\* ----------------------------------------------------------- combine_tiles
\* lines 411-425: the ramp along one axis, as a numerator over `overlap`
\* (over 1 when overlap = 0, where both comparisons are false)
WeightUnit(ov) == IF ov = 0 THEN 1 ELSE ov

Ramp(t, len, ov) ==
    IF t < ov THEN t
    ELSE IF t >= len - ov THEN len - t
    ELSE WeightUnit(ov)

\* lines 435-443: (out * acc + v * w) / (acc + w) as u8.  acc + w = 0 gives
\* 0.0 / 0.0 = NaN, and NaN as u8 is 0.
BlendU8(out, acc, v, w) ==
    IF acc + w = 0 THEN 0 ELSE (out * acc + v * w) \div (acc + w)

\* lines 433: the bounds guard of the accumulation
BlendGuard(src_idx, dst_idx, rgb_len, out_len) ==
    src_idx + 2 < rgb_len /\ dst_idx + 2 < out_len

\* does the tile touch output pixel (gx, gy)? (loops 401-408)
Covers(tile, gx, gy, width, height) ==
    /\ gx >= tile.x /\ gx < tile.x + tile.width
    /\ gy >= tile.y /\ gy < tile.y + tile.height
    /\ gx < width /\ gy < height

TileWeight(tile, gx, gy) ==
    Ramp(gx - tile.x, tile.width, tile.overlap)
    * Ramp(gy - tile.y, tile.height, tile.overlap)

Accumulates(tile, gx, gy, width, height) ==
    /\ Covers(tile, gx, gy, width, height)
    /\ BlendGuard(((gy - tile.y) * tile.width + (gx - tile.x)) * 3,
                  (gy * width + gx) * 3, Len(tile.rgb), width * height * 3)

\* one iteration of `for tile in tiles` applied to the output buffer
BlendOutput(out, wmap, tile, width, height) ==
    [k \in 1..(width * height * 3) |->
       LET p == (k - 1) \div 3
           ch == (k - 1) % 3
           gx == p % width
           gy == p \div width
       IN  IF Accumulates(tile, gx, gy, width, height)
           THEN BlendU8(out[k], wmap[p + 1],
                        Get(tile.rgb, ((gy - tile.y) * tile.width
                                       + (gx - tile.x)) * 3 + ch),
                        TileWeight(tile, gx, gy))
           ELSE out[k]]

\* ... and to the weight map (line 444)
BlendWeights(wmap, tile, width, height) ==
    [p \in 1..(width * height) |->
       LET gx == (p - 1) % width
           gy == (p - 1) \div width
       IN  IF Accumulates(tile, gx, gy, width, height)
           THEN wmap[p] + TileWeight(tile, gx, gy)
           ELSE wmap[p]]

\* combine_tiles panics: usize underflow of tile.width - tile.overlap in a
\* branch that is evaluated (lines 413, 421)
CombinePanics(tile, width, height) ==
    \E tx \in 0..(tile.width - 1), ty \in 0..(tile.height - 1) :
       /\ tile.x + tx < width /\ tile.y + ty < height
       /\ \/ (tx >= tile.overlap /\ tile.width < tile.overlap)
          \/ (ty >= tile.overlap /\ tile.height < tile.overlap)

\* ------------------------------------------------------------------ inputs
\* Bayer buffers the caller may pass: a constant one, a smooth gradient, one
\* whose samples differ from pixel to pixel (some above the white level), and
\* one shorter than width * height.
MakeBayer(kind, w, h) ==
    CASE kind = "flat"  -> [k \in 1..(w * h) |-> 255]
      [] kind = "ramp"  -> [k \in 1..(w * h) |->
                              40 + ((k - 1) % w) + ((k - 1) \div w)]
      [] kind = "noise" -> [k \in 1..(w * h) |-> ((k - 1) * 97 + 13) % 601]
      [] kind = "short" -> [k \in 1..((w * h) \div 2) |-> ((k - 1) * 97 + 13) % 601]

\* a buffer in which every sample tells the colour of its CFA site: 10 at a
\* Red site, 105 at a Green site, 200 at a Blue site
CfaBayer(p, w, h) ==
    [k \in 1..(w * h) |-> 10 + 95 * ColorAt(p, (k - 1) % w, (k - 1) \div w)]

\* (buffer kind, black_level, white_level); 255 / (white - black) is 1, 1/2,
\* 255/7 (not an f32), or the division by zero of white_level <= black_level
Scenes ==
    { <<"flat", 0, 255>>, <<"ramp", 0, 255>>, <<"noise", 0, 255>>,
      <<"noise", 16, 526>>, <<"noise", 300, 300>>,
      <<"short", 0, 255>>, <<"short", 400, 100>>,
      <<"flat", 248, 255>>, <<"cfa", 0, 255>> }

\* ------------------------------------------------------------------- state
VARIABLES
    width, height,            \* demosaic arguments
    tile_size, overlap,       \* ParallelDemosaic fields
    pattern, black_level, white_level,
    bayer_data,
    pc,                       \* "extract", "map", "blend", "done", "panicked"
    tiles,                    \* Vec<Tile> of line 203
    task,                     \* per tile: "pending", "done", "panicked"
    demosaiced_tiles,         \* Vec<DemosaicedTile> of line 212
    next_tile,                \* position of `for tile in tiles` (line 394)
    output, weight_map,       \* combine_tiles locals
    result,                   \* what demosaic returned to its caller
    cdesc, raw_width,         \* idata.cdesc and sizes.raw_width of the decoder
    rawdata,                  \* sizes and rawdata.raw_image, as sampled
    median, exposure,         \* p50 and the value of calculate_auto_exposure
    stimulus, calls,          \* the last Stimulus and the number of calls
    metrics,                  \* MediaOrgan.metrics
    response,                 \* what stimulate returned
    entry, options,           \* the function called and its RawOptions
    params,                   \* exp_correc, exp_shift, exp_preser of the decoder
    libraw                    \* calls made to the decoder so far

inputs == <<width, height, tile_size, overlap, pattern, black_level,
            white_level, bayer_data>>

decoder == <<entry, options, params, libraw>>

others == <<cdesc, raw_width, rawdata, median, exposure, stimulus, calls,
            metrics, response, decoder>>

vars == <<width, height, tile_size, overlap, pattern, black_level,
          white_level, bayer_data, pc, tiles, task, demosaiced_tiles,
          next_tile, output, weight_map, result, cdesc, raw_width, rawdata,
          median, exposure, stimulus, calls, metrics, response, entry,
          options, params, libraw>>

NoTile == [rgb |-> <<>>, x |-> 0, y |-> 0, width |-> 0, height |-> 0,
           overlap |-> 0]

NoResult == [status |-> "none", rgb |-> <<>>]

Abs(a) == IF a < 0 THEN -a ELSE a

\* ------------------------------------------------- values of idle variables
\* a specification of one operation leaves the variables of the other
\* operations at these values
RawIdle ==
    /\ cdesc = <<>>
    /\ raw_width = 0

ExposureIdle ==
    /\ rawdata = [is_null |-> TRUE, width |-> 0, height |-> 0, samples |-> <<>>]
    /\ median = 0
    /\ exposure = 0

\* the operations with a counter of their own, metrics.rs lines 53-58
CountedOps ==
    {"audio.preprocess", "audio.mel_spectrogram", "video.extract_frames",
     "image.preprocess", "raw.preview", "raw.metadata"}

NoStimulus == [op |-> "", input |-> {}]

NoResponse == [kind |-> "none", ok |-> FALSE, error |-> "", functions |-> <<>>]

OrganIdle ==
    /\ stimulus = NoStimulus
    /\ calls = 0
    /\ metrics = [total_requests |-> 0, successful_requests |-> 0,
                  failed_requests |-> 0,
                  operations |-> [o \in CountedOps |-> 0]]
    /\ response = NoResponse

\* Option<f32>, the value in millionths
None == [some |-> FALSE, value |-> 0]

Some(v) == [some |-> TRUE, value |-> v]

NoOptions == [auto_exposure |-> FALSE, exposure_compensation |-> None]

\* exp_shift in millionths, exp_preser in tenths
DefaultParams == [exp_correc |-> -1, exp_shift |-> 1000000, exp_preser |-> 0]

NoCalls == [unpack_calls |-> 0, unpack_failed |-> FALSE,
            params_written |-> FALSE, dcraw_calls |-> 0]

DecoderIdle ==
    /\ entry = "none"
    /\ options = NoOptions
    /\ params = DefaultParams
    /\ libraw = NoCalls

DemosaicIdle ==
    /\ width = 0
    /\ height = 0
    /\ tile_size = 0
    /\ overlap = 0
    /\ pattern = "none"
    /\ black_level = 0
    /\ white_level = 0
    /\ bayer_data = <<>>
    /\ tiles = <<>>
    /\ task = <<>>
    /\ demosaiced_tiles = <<>>
    /\ next_tile = 0
    /\ output = <<>>
    /\ weight_map = <<>>
    /\ result = NoResult

TilesX == TileCount(width, tile_size)

TilesY == TileCount(height, tile_size)

Init ==
    /\ \E w \in Widths, h \in Heights, ts \in TileSizes, ov \in Overlaps,
          p \in Patterns, sc \in Scenes :
          /\ TileCount(w, ts) * TileCount(h, ts) <= MaxTiles
          /\ width = w
          /\ height = h
          /\ tile_size = ts
          /\ overlap = ov
          /\ pattern = p
          /\ black_level = sc[2]
          /\ white_level = sc[3]
          /\ bayer_data = IF sc[1] = "cfa"
                          THEN CfaBayer(p, w, h)
                          ELSE MakeBayer(sc[1], w, h)
    /\ pc = "extract"
    /\ tiles = <<>>
    /\ task = <<>>
    /\ demosaiced_tiles = <<>>
    /\ next_tile = 0
    /\ output = <<>>
    /\ weight_map = <<>>
    /\ result = NoResult
    /\ RawIdle
    /\ ExposureIdle
    /\ OrganIdle
    /\ DecoderIdle

\* ----------------------------------------------------------------- actions
\* demosaic, lines 193-209: the tile grid and the sequential extraction
Extract ==
    /\ pc = "extract"
    /\ LET n == TilesX * TilesY
           all == [i \in 1..n |->
                     ExtractTile(bayer_data, width, height,
                                 (i - 1) % TilesX, (i - 1) \div TilesX,
                                 tile_size, overlap)]
           panics == \E i \in 1..n :
                        ExtractTilePanics(bayer_data, width, height,
                                          (i - 1) % TilesX, (i - 1) \div TilesX,
                                          tile_size, overlap)
       IN  IF panics
           THEN /\ pc' = "panicked"
                /\ UNCHANGED <<tiles, task, demosaiced_tiles>>
           ELSE /\ pc' = "map"
                /\ tiles' = all
                /\ task' = [i \in 1..n |-> "pending"]
                /\ demosaiced_tiles' = [i \in 1..n |-> NoTile]
    /\ UNCHANGED <<others, inputs, next_tile, output, weight_map, result>>

\* lines 212-217: into_par_iter over a Vec is an indexed parallel iterator,
\* so collect() stores the value of the i-th closure at position i of the
\* result whatever the order in which the closures finish
MutResultSlot(i, t) == 1 + Cardinality({j \in DOMAIN t : t[j] = "done"})

ResultSlot(i, t) == i

\* lines 212-216: one closure of the parallel map, run by some worker
RunTile(i) ==
    /\ pc = "map"
    /\ task[i] = "pending"
    /\ IF DemosaicTilePanics(tiles[i], pattern)
       THEN /\ task' = [task EXCEPT ![i] = "panicked"]
            /\ UNCHANGED demosaiced_tiles
       ELSE /\ task' = [task EXCEPT ![i] = "done"]
            /\ demosaiced_tiles' =
                 [demosaiced_tiles EXCEPT
                    ![ResultSlot(i, task)] =
                        DemosaicTile(tiles[i], pattern, black_level, white_level)]
    /\ UNCHANGED <<others, inputs, pc, tiles, next_tile, output, weight_map, result>>

\* line 217: collect() returns when every closure has returned; a panic in a
\* closure is resumed in the caller by rayon, so demosaic unwinds instead
MutJoinOutcome(t) == "blend"

JoinOutcome(t) ==
    IF \E i \in DOMAIN t : t[i] = "panicked" THEN "panicked" ELSE "blend"

MutJoinReady(t) == \E i \in DOMAIN t : t[i] # "pending"

JoinReady(t) ==
    \/ \A i \in DOMAIN t : t[i] = "done"
    \/ \E i \in DOMAIN t : t[i] = "panicked"

\* lines 217-220 and 391-392: the join, then combine_tiles allocates
Join ==
    /\ pc = "map"
    /\ JoinReady(task)
    /\ pc' = JoinOutcome(task)
    /\ IF JoinOutcome(task) = "blend"
       THEN /\ output' = [k \in 1..(width * height * 3) |-> 0]
            /\ weight_map' = [p \in 1..(width * height) |-> 0]
            /\ next_tile' = 1
       ELSE UNCHANGED <<output, weight_map, next_tile>>
    /\ UNCHANGED <<others, inputs, tiles, task, demosaiced_tiles, result>>

\* lines 394-448: one iteration of `for tile in tiles`
BlendTile ==
    /\ pc = "blend"
    /\ next_tile <= Len(demosaiced_tiles)
    /\ LET tile == demosaiced_tiles[next_tile]
       IN  IF CombinePanics(tile, width, height)
           THEN /\ pc' = "panicked"
                /\ UNCHANGED <<output, weight_map, next_tile>>
           ELSE /\ output' = BlendOutput(output, weight_map, tile, width, height)
                /\ weight_map' = BlendWeights(weight_map, tile, width, height)
                /\ next_tile' = next_tile + 1
                /\ pc' = pc
    /\ UNCHANGED <<others, inputs, tiles, task, demosaiced_tiles, result>>

\* line 450 and line 220: combine_tiles returns output, demosaic returns it
ReturnStatus(wmap) == "ok"

Return ==
    /\ pc = "blend"
    /\ next_tile > Len(demosaiced_tiles)
    /\ result' = [status |-> ReturnStatus(weight_map), rgb |-> output]
    /\ pc' = "done"
    /\ UNCHANGED <<others, inputs, tiles, task, demosaiced_tiles, next_tile, output,
                   weight_map>>

Next ==
    \/ Extract
    \/ \E i \in DOMAIN task : RunTile(i)
    \/ Join
    \/ BlendTile
    \/ Return

Spec == Init /\ [][Next]_vars

\* A panic raised inside one closure of the parallel map (the spec's
\* "single tile's demosaic step fails"); the code paths modelled above never
\* raise one themselves, so it is an event of the environment.
FaultTile(i) ==
    /\ pc = "map"
    /\ task[i] = "pending"
    /\ task' = [task EXCEPT ![i] = "panicked"]
    /\ UNCHANGED <<others, inputs, pc, tiles, demosaiced_tiles, next_tile, output,
                   weight_map, result>>

NextFault ==
    \/ Next
    \/ \E i \in DOMAIN task : FaultTile(i)

SpecFault == Init /\ [][NextFault]_vars

\* combine_tiles applied to tiles of one uniform colour, laid out as
\* extract_tile lays them out
Colours == {0, 1, 100, 255}

UniformTile(tile, c) ==
    [rgb |-> [k \in 1..(tile.width * tile.height * 3) |-> c],
     x |-> tile.x,
     y |-> tile.y,
     width |-> tile.width,
     height |-> tile.height,
     overlap |-> tile.overlap]

InitUniform ==
    /\ \E w \in Widths, h \in Heights, ts \in TileSizes, ov \in Overlaps,
          c \in Colours :
          LET n == TileCount(w, ts) * TileCount(h, ts)
              grid == [i \in 1..n |->
                         ExtractTile([k \in 1..(w * h) |-> 0], w, h,
                                     (i - 1) % TileCount(w, ts),
                                     (i - 1) \div TileCount(w, ts), ts, ov)]
          IN  /\ n <= MaxTiles
              /\ width = w
              /\ height = h
              /\ tile_size = ts
              /\ overlap = ov
              /\ bayer_data = [k \in 1..(w * h) |-> 0]
              /\ tiles = grid
              /\ task = [i \in 1..n |-> "done"]
              /\ demosaiced_tiles = [i \in 1..n |-> UniformTile(grid[i], c)]
              /\ output = [k \in 1..(w * h * 3) |-> 0]
              /\ weight_map = [k \in 1..(w * h) |-> 0]
    /\ pattern = "RGGB"
    /\ black_level = 0
    /\ white_level = 255
    /\ pc = "blend"
    /\ next_tile = 1
    /\ result = NoResult
    /\ RawIdle
    /\ ExposureIdle
    /\ OrganIdle
    /\ DecoderIdle

NextBlend ==
    \/ BlendTile
    \/ Return

SpecBlend == InitUniform /\ [][NextBlend]_vars

\* combine_tiles as one call, lines 385-451: the fold of the loop body over
\* the tiles in the order of the vector
RECURSIVE CombineFrom(_, _, _, _, _, _)
CombineFrom(ts, k, out, wmap, w, h) ==
    IF k > Len(ts)
    THEN out
    ELSE CombineFrom(ts, k + 1, BlendOutput(out, wmap, ts[k], w, h),
                     BlendWeights(wmap, ts[k], w, h), w, h)

CombineTiles(ts, w, h) ==
    CombineFrom(ts, 1, [k \in 1..(w * h * 3) |-> 0], [k \in 1..(w * h) |-> 0], w, h)

\* combine_tiles applied to tiles that differ in colour: one tile of the grid
\* has colour c, the others are black
InitMixed ==
    /\ \E w \in Widths, h \in Heights, ts \in TileSizes, ov \in Overlaps,
          c \in Colours, b \in 1..MaxTiles :
          LET n == TileCount(w, ts) * TileCount(h, ts)
              grid == [i \in 1..n |->
                         ExtractTile([k \in 1..(w * h) |-> 0], w, h,
                                     (i - 1) % TileCount(w, ts),
                                     (i - 1) \div TileCount(w, ts), ts, ov)]
          IN  /\ n <= MaxTiles
              /\ b <= n
              /\ width = w
              /\ height = h
              /\ tile_size = ts
              /\ overlap = ov
              /\ bayer_data = [k \in 1..(w * h) |-> 0]
              /\ tiles = grid
              /\ task = [i \in 1..n |-> "done"]
              /\ demosaiced_tiles =
                    [i \in 1..n |-> UniformTile(grid[i], IF i = b THEN c ELSE 0)]
              /\ output = [k \in 1..(w * h * 3) |-> 0]
              /\ weight_map = [k \in 1..(w * h) |-> 0]
    /\ pattern = "RGGB"
    /\ black_level = 0
    /\ white_level = 255
    /\ pc = "blend"
    /\ next_tile = 1
    /\ result = NoResult
    /\ RawIdle
    /\ ExposureIdle
    /\ OrganIdle
    /\ DecoderIdle

SpecMixed == InitMixed /\ [][NextBlend]_vars

\* ------------------------------------------------------- process_raw_tiled
MaxRowPadding == 2

\* idata.cdesc: five C chars; the four patterns, the colour descriptor
\* LibRaw usually reports ("RGBG"), and malformed ones (lower case, NUL,
\* bytes above 127 which are negative as i8)
Cdescs ==
    {<<82, 71, 71, 66, 0>>, <<71, 82, 66, 71, 0>>, <<71, 66, 82, 71, 0>>,
     <<66, 71, 71, 82, 0>>, <<66, 71, 71, 82, 71>>, <<82, 71, 66, 71, 0>>,
     <<0, 0, 0, 0, 0>>, <<114, 103, 103, 98, 0>>, <<82, 71, 71, 0, 0>>,
     <<-1, 71, 71, 66, 0>>, <<71, 71, 82, 66, 0>>}

\* `as u8` of an i8
AsU8(c) == c % 256

\* BayerPattern::from_cdesc, lines 37-47
MutFromCdesc(c) ==
    LET p == <<AsU8(c[1]), AsU8(c[2]), AsU8(c[3]), AsU8(c[4])>>
    IN  IF p = <<82, 71, 71, 66>> THEN "RGGB"
        ELSE IF p = <<71, 82, 66, 71>> THEN "GBRG"
        ELSE IF p = <<71, 66, 82, 71>> THEN "GRBG"
        ELSE IF p = <<66, 71, 71, 82>> THEN "BGGR"
        ELSE "RGGB"

FromCdesc(c) ==
    LET p == <<AsU8(c[1]), AsU8(c[2]), AsU8(c[3]), AsU8(c[4])>>
    IN  IF p = <<82, 71, 71, 66>> THEN "RGGB"
        ELSE IF p = <<71, 82, 66, 71>> THEN "GRBG"
        ELSE IF p = <<71, 66, 82, 71>> THEN "GBRG"
        ELSE IF p = <<66, 71, 71, 82>> THEN "BGGR"
        ELSE "RGGB"

\* what the sensor recorded at column col of row row; rawdata.raw_image holds
\* it at index row * raw_width + col
SensorSample(col, row) == 20 + 16 * row + col

RawImage(rw, h) ==
    [k \in 1..(rw * h) |-> SensorSample((k - 1) % rw, (k - 1) \div rw)]

\* the decoder's levels (color.black, color.maximum)
Levels == {<<0, 255>>, <<16, 526>>}

InitTiled ==
    /\ \E w \in Widths, h \in Heights, ts \in TileSizes,
          pad \in 0..MaxRowPadding, cd \in Cdescs, lv \in Levels :
          /\ TileCount(w, ts) * TileCount(h, ts) <= MaxTiles
          /\ width = w
          /\ height = h
          /\ raw_width = w + pad
          /\ tile_size = ts
          /\ cdesc = cd
          /\ black_level = lv[1]
          /\ white_level = lv[2]
    /\ overlap = 0
    /\ pattern = "none"
    /\ bayer_data = <<>>
    /\ pc = "open"
    /\ tiles = <<>>
    /\ task = <<>>
    /\ demosaiced_tiles = <<>>
    /\ next_tile = 0
    /\ output = <<>>
    /\ weight_map = <<>>
    /\ result = NoResult
    /\ ExposureIdle
    /\ OrganIdle
    /\ DecoderIdle

\* raw.rs lines 1386-1421: read the sizes and the pattern, copy
\* raw_width * height samples, build the ParallelDemosaic; the call of
\* demosaic (lines 1429-1436) is the actions of Next
ProcessRawTiled ==
    /\ pc = "open"
    /\ pattern' = FromCdesc(cdesc)
    /\ bayer_data' = RawImage(raw_width, height)
    /\ overlap' = DefaultOverlap
    /\ pc' = "extract"
    /\ UNCHANGED <<width, height, tile_size, black_level, white_level, tiles,
                   task, demosaiced_tiles, next_tile, output, weight_map,
                   result, others>>

NextTiled ==
    \/ ProcessRawTiled
    \/ Next

SpecTiled == InitTiled /\ [][NextTiled]_vars

\* ------------------------------------------------- calculate_auto_exposure
MaxSampleCols == 3

HistogramBins == 256

SampleRate == 10

BinWidth == 64

MaxSample == 65535

P50Sentinel == 128

TargetMedian == 118

\* f32 values are held in millionths of a stop, rounded toward zero
MinEv == -2000000

MaxEv == 3000000

SignificantEv == 300000

\* +infinity, the value of 118.0 / 0.0 and of its log2
PosInf == 2147483647

\* line 421 for a median of 1..255: (118.0f32 / m as f32).log2()
Log2Micro ==
    <<6882643, 5882643, 5297680, 4882643, 4560715, 4297680, 4075288, 3882642,
    3712718, 3560714, 3423211, 3297680, 3182203, 3075288, 2975752, 2882642,
    2795180, 2712718, 2634715, 2560714, 2490325, 2423211, 2359081, 2297680,
    2238786, 2182203, 2127755, 2075288, 2024662, 1975752, 1928446, 1882643,
    1838248, 1795180, 1753360, 1712718, 1673189, 1634715, 1597240, 1560714,
    1525091, 1490325, 1456378, 1423211, 1390789, 1359081, 1328054, 1297680,
    1267933, 1238786, 1210217, 1182203, 1154722, 1127755, 1101283, 1075288,
    1049753, 1024662, 1000000, 975752, 951905, 928446, 905363, 882643,
    860275, 838248, 816553, 795180, 774118, 753359, 732895, 712718,
    692818, 673189, 653824, 634715, 615856, 597240, 578862, 560714,
    542793, 525091, 507603, 490325, 473252, 456378, 439699, 423211,
    406909, 390789, 374848, 359081, 343484, 328054, 312787, 297680,
    282730, 267933, 253286, 238786, 224431, 210217, 196142, 182203,
    168397, 154722, 141176, 127755, 114458, 101283, 88227, 75288,
    62464, 49753, 37152, 24662, 12278, 0, -12174, -24247,
    -36220, -48094, -59871, -71553, -83141, -94636, -106041, -117356,
    -128584, -139724, -150779, -161751, -172639, -183446, -194172, -204819,
    -215389, -225881, -236297, -246639, -256908, -267104, -277228, -287281,
    -297266, -307181, -317029, -326810, -336525, -346175, -355761, -365284,
    -374744, -384143, -393481, -402759, -411977, -421137, -430239, -439285,
    -448273, -457206, -466085, -474908, -483679, -492396, -501061, -509674,
    -518236, -526747, -535209, -543621, -551985, -560300, -568568, -576788,
    -584962, -593090, -601172, -609210, -617202, -625151, -633056, -640918,
    -648738, -656515, -664251, -671945, -679599, -687212, -694785, -702319,
    -709814, -717269, -724687, -732066, -739408, -746713, -753981, -761213,
    -768408, -775568, -782692, -789782, -796837, -803857, -810843, -817796,
    -824716, -831602, -838456, -845277, -852066, -858823, -865549, -872244,
    -878908, -885541, -892144, -898716, -905259, -911772, -918256, -924711,
    -931138, -937535, -943905, -950246, -956560, -962847, -969105, -975337,
    -981543, -987721, -993873, -1000000, -1006100, -1012174, -1018223, -1024247,
    -1030246, -1036220, -1042169, -1048094, -1053994, -1059871, -1065724, -1071553,
    -1077358, -1083141, -1088900, -1094636, -1100350, -1106041, -1111710>>

\* lines 382-383
Bin(pixel_value) == Min(pixel_value \div BinWidth, HistogramBins - 1)

\* lines 373-386, on the pixels the two step_by loops visit
Histogram(s) ==
    [b \in 0..(HistogramBins - 1) |->
        Cardinality({k \in DOMAIN s : Bin(s[k]) = b})]

\* lines 398-410: one iteration of the percentile loop; done records the break
LoopBody(histogram, i, st, total) ==
    IF st.done
    THEN st
    ELSE LET cum == st.cumulative + histogram[i]
         IN  [cumulative |-> cum,
              p50 |-> IF cum >= total \div 2 /\ st.p50 = P50Sentinel
                      THEN i
                      ELSE st.p50,
              done |-> cum >= (total * 99) \div 100]

\* the iterations lo..hi in increasing order, none after the break
RECURSIVE LoopOver(_, _, _, _, _)
LoopOver(histogram, lo, hi, st, total) ==
    IF lo = hi
    THEN LoopBody(histogram, lo, st, total)
    ELSE LET mid == (lo + hi) \div 2
             first == LoopOver(histogram, lo, mid, st, total)
         IN  IF first.done
             THEN first
             ELSE LoopOver(histogram, mid + 1, hi, first, total)

\* lines 389-410: the percentile loop; returns p50
PercentileLoop(histogram, total) ==
    LoopOver(histogram, 0, HistogramBins - 1,
             [cumulative |-> 0, p50 |-> P50Sentinel, done |-> FALSE], total).p50

\* line 421
MutEvAdjustment(m) == IF m = 0 THEN 0 - PosInf ELSE 0 - Log2Micro[m]

EvAdjustment(m) == IF m = 0 THEN PosInf ELSE Log2Micro[m]

\* line 424
MutClampEv(v) == v

ClampEv(v) == IF v < MinEv THEN MinEv ELSE IF v > MaxEv THEN MaxEv ELSE v

\* lines 416-431
AutoExposure(p50) ==
    LET clamped_ev == ClampEv(EvAdjustment(p50))
    IN  IF Abs(clamped_ev) > SignificantEv THEN clamped_ev ELSE 0

\* the sampled pixels of an image: k of them in bin m, the others one bin
\* higher or saturated
InitExposure ==
    /\ \E c \in 1..MaxSampleCols, hh \in {5, 10}, part \in BOOLEAN,
          m \in 0..(HistogramBins - 1), sat \in BOOLEAN, k \in 0..MaxSampleCols,
          null \in BOOLEAN :
          LET w  == IF part THEN SampleRate * c - 5 ELSE SampleRate * c
              lo == BinWidth * m + (m % BinWidth)
              hi == IF sat \/ m = HistogramBins - 1
                    THEN MaxSample
                    ELSE BinWidth * (m + 1)
          IN  /\ k <= c
              /\ null => (c = 1 /\ m = 0 /\ k = 0 /\ sat /\ part /\ hh = 5)
              /\ rawdata = [is_null |-> null, width |-> w, height |-> hh,
                            samples |-> [i \in 1..c |-> IF i <= k THEN lo ELSE hi]]
    /\ median = P50Sentinel
    /\ exposure = 0
    /\ pc = "analyze"
    /\ DemosaicIdle
    /\ RawIdle
    /\ OrganIdle
    /\ DecoderIdle

\* lines 360-432
CalculateAutoExposure ==
    /\ pc = "analyze"
    /\ pc' = "exposed"
    /\ IF rawdata.is_null
       THEN /\ exposure' = 0
            /\ UNCHANGED median
       ELSE LET total_pixels == (rawdata.width \div SampleRate)
                                   * (rawdata.height \div SampleRate)
                p50 == PercentileLoop(Histogram(rawdata.samples), total_pixels)
            IN  /\ median' = p50
                /\ exposure' = AutoExposure(p50)
    /\ UNCHANGED <<inputs, tiles, task, demosaiced_tiles, next_tile, output,
                   weight_map, result, cdesc, raw_width, rawdata, stimulus,
                   calls, metrics, response, decoder>>

NextExposure == CalculateAutoExposure

SpecExposure == InitExposure /\ [][NextExposure]_vars

\* -------------------------------------------------------------- MediaOrgan
MaxRequests == 3

\* the arms of the match in stimulate that call a handler, lines 349-355
HandledOps ==
    {"audio.preprocess", "audio.mel_spectrogram", "video.extract_frames",
     "image.preprocess", "raw.preview", "raw.metadata", "media.capabilities"}

\* all arms but the default one, lines 349-360
DispatchedOps == HandledOps \cup {"metrics"}

Ops == DispatchedOps \cup {"invalid.operation", "audio.unknown", ""}

\* the keys of stimulus.input that hold a string
Inputs ==
    {{}, {"input_path"}, {"output_path"}, {"input_path", "output_path"},
     {"audio_path"}, {"video_path"}, {"video_path", "output_dir"}}

\* the ok_or_else(...)? lines of each handler, in the order they run
RequiredInputs(op) ==
    CASE op = "audio.preprocess" -> <<"input_path", "output_path">>
      [] op = "audio.mel_spectrogram" -> <<"audio_path">>
      [] op = "video.extract_frames" -> <<"video_path", "output_dir">>
      [] op = "image.preprocess" -> <<"input_path", "output_path">>
      [] op = "raw.preview" -> <<"input_path", "output_path">>
      [] op = "raw.metadata" -> <<"input_path">>
      [] OTHER -> <<>>

\* the handlers that run an external decoder or encoder after their checks
ProcessingOps ==
    {"audio.preprocess", "video.extract_frames", "image.preprocess",
     "raw.preview", "raw.metadata"}

\* describe, lines 398-575: the names of card.functions
Describe ==
    <<"audio.preprocess", "audio.mel_spectrogram", "video.extract_frames",
      "image.preprocess", "media.capabilities">>

MissingInputs(op, input) ==
    {k \in DOMAIN RequiredInputs(op) : RequiredInputs(op)[k] \notin input}

\* a handler: Result<Value, OrganError>
Handle(op, input, processing_ok) ==
    IF MissingInputs(op, input) # {}
    THEN [kind |-> "Err", ok |-> FALSE,
          error |-> "InvalidInput", functions |-> <<>>]
    ELSE IF op \in ProcessingOps /\ ~processing_ok
    THEN [kind |-> "Err", ok |-> FALSE,
          error |-> "ProcessingError", functions |-> <<>>]
    ELSE [kind |-> "Ok", ok |-> TRUE, error |-> "",
          functions |-> IF op = "media.capabilities" THEN Describe ELSE <<>>]

\* the default arm, lines 364-383
MutUnsupportedOutcome(op) ==
    [kind |-> "Err", ok |-> FALSE, error |-> "UnsupportedOperation",
     functions |-> <<>>]

UnsupportedOutcome(op) ==
    [kind |-> "Ok", ok |-> FALSE, error |-> "UnsupportedOperation",
     functions |-> <<>>]

\* Metrics::record_request, metrics.rs lines 40-61
RecordRequest(m, op, success) ==
    [total_requests |-> m.total_requests + 1,
     successful_requests |-> m.successful_requests + (IF success THEN 1 ELSE 0),
     failed_requests |-> m.failed_requests + (IF success THEN 0 ELSE 1),
     operations |-> [o \in CountedOps |->
                       m.operations[o] + (IF o = op THEN 1 ELSE 0)]]

InitOrgan ==
    /\ OrganIdle
    /\ DecoderIdle
    /\ pc = "serving"
    /\ DemosaicIdle
    /\ RawIdle
    /\ ExposureIdle

\* stimulate, lines 344-396
Stimulate(op, input, processing_ok) ==
    /\ pc = "serving"
    /\ calls < MaxRequests
    /\ calls' = calls + 1
    /\ stimulus' = [op |-> op, input |-> input]
    /\ IF op \in HandledOps
       THEN LET r == Handle(op, input, processing_ok)
            IN  /\ response' = r
                /\ metrics' = IF r.kind = "Ok"
                              THEN RecordRequest(metrics, op, TRUE)
                              ELSE metrics
       ELSE IF op = "metrics"
       THEN /\ response' = [kind |-> "Ok", ok |-> TRUE, error |-> "",
                            functions |-> <<>>]
            /\ metrics' = RecordRequest(metrics, op, TRUE)
       ELSE /\ response' = UnsupportedOutcome(op)
            /\ metrics' = RecordRequest(metrics, op, FALSE)
    /\ UNCHANGED <<inputs, pc, tiles, task, demosaiced_tiles, next_tile, output,
                   weight_map, result, cdesc, raw_width, rawdata, median,
                   exposure, decoder>>

NextOrgan ==
    \E op \in Ops, input \in Inputs, processing_ok \in BOOLEAN :
       Stimulate(op, input, processing_ok)

SpecOrgan == InitOrgan /\ [][NextOrgan]_vars

\* ------------------------------------ process_raw, process_raw_from_memory

\* a * b of two non-negative values in millionths
MulMicro(a, b) == ((a \div 1000) * b + ((a % 1000) * b) \div 1000) \div 1000

\* 2^f for 0 <= f < 1, both in millionths
Exp2Frac(f) ==
    1000000 + MulMicro(f, 693147 + MulMicro(f, 240227 + MulMicro(f, 55504
            + MulMicro(f, 9618 + MulMicro(f, 1333 + MulMicro(f, 154))))))

\* 2.0_f32.powf(ev), ev and the result in millionths
Pow2Micro(ev) ==
    LET whole == ev \div 1000000
        m == Exp2Frac(ev % 1000000)
    IN  IF whole >= 0 THEN m * 2 ^ whole ELSE m \div 2 ^ (0 - whole)

\* process_raw_from_memory, lines 456-471, after unpack and
\* calculate_auto_exposure of the auto branch
ExpShiftValueMemory(opts, auto_ev) ==
    IF opts.auto_exposure
    THEN Some(Pow2Micro(auto_ev))
    ELSE IF opts.exposure_compensation.some
    THEN Some(Pow2Micro(opts.exposure_compensation.value))
    ELSE None

MutExpShiftValueFile(opts, auto_ev) ==
    IF opts.exposure_compensation.some
    THEN Some(Pow2Micro(opts.exposure_compensation.value))
    ELSE IF opts.auto_exposure THEN Some(Pow2Micro(auto_ev)) ELSE None

\* process_raw, lines 684-692
ExpShiftValueFile(opts, auto_ev) ==
    IF opts.auto_exposure
    THEN Some(Pow2Micro(auto_ev))
    ELSE IF opts.exposure_compensation.some
         THEN Some(Pow2Micro(opts.exposure_compensation.value))
         ELSE None

\* lines 496-521 and 716-734
ExposureParams(exp_shift_value) ==
    IF exp_shift_value.some
    THEN LET shift == exp_shift_value.value
         IN  [exp_correc |-> 1,
              exp_shift |-> shift,
              exp_preser |-> IF shift >= 4000000 THEN 7
                             ELSE IF shift >= 2000000 THEN 5
                             ELSE IF shift >= 1500000 THEN 3
                             ELSE 0]
    ELSE [exp_correc |-> -1, exp_shift |-> 1000000, exp_preser |-> 0]

MutNeedsUnpack(opts) == TRUE

\* lines 581 and 794
NeedsUnpack(opts) == ~opts.auto_exposure

Entries == {"process_raw", "process_raw_from_memory"}

\* exposure_compensation of the options, in millionths of a stop
Compensations ==
    {None, Some(-1000000), Some(0), Some(500000), Some(580000), Some(590000),
     Some(1000000), Some(1500000), Some(2000000), Some(3000000)}

\* histogram bins that hold the sampled pixels of the file
Medians == {0, 14, 15, 29, 59, 78, 79, 100, 118, 146, 255}

\* what open leaves in the parameters before they are configured
OpenedParams == {DefaultParams, [exp_correc |-> 0, exp_shift |-> 0, exp_preser |-> 0]}

\* rawdata is what unpack makes available of the file
InitProcess ==
    /\ \E f \in Entries, auto \in BOOLEAN, comp \in Compensations,
          m \in Medians, null \in BOOLEAN :
          /\ null => m = 0
          /\ entry = f
          /\ options = [auto_exposure |-> auto, exposure_compensation |-> comp]
          /\ rawdata = [is_null |-> null,
                        width |-> SampleRate * MaxSampleCols,
                        height |-> SampleRate,
                        samples |-> [i \in 1..MaxSampleCols |-> BinWidth * m]]
    /\ median = P50Sentinel
    /\ exposure = 0
    /\ params = DefaultParams
    /\ libraw = NoCalls
    /\ pc = "start"
    /\ DemosaicIdle
    /\ RawIdle
    /\ OrganIdle

\* RawImage::open, lines 442-445 and 669-672
OpenRaw ==
    /\ pc = "start"
    /\ \E ok \in BOOLEAN :
          IF ok
          THEN /\ pc' = "opened"
               /\ params' \in OpenedParams
          ELSE /\ pc' = "failed"
               /\ UNCHANGED params
    /\ UNCHANGED <<inputs, tiles, task, demosaiced_tiles, next_tile, output,
                   weight_map, result, cdesc, raw_width, rawdata, median,
                   exposure, stimulus, calls, metrics, response, entry,
                   options, libraw>>

\* the unpack of the auto branch, lines 458-460 and 685-687
UnpackForExposure ==
    /\ pc = "opened"
    /\ options.auto_exposure
    /\ \E ok \in BOOLEAN :
          /\ libraw' = [libraw EXCEPT !.unpack_calls = @ + 1,
                                      !.unpack_failed = ~ok]
          /\ pc' = IF ok THEN "analyze" ELSE "failed"
    /\ UNCHANGED <<inputs, tiles, task, demosaiced_tiles, next_tile, output,
                   weight_map, result, cdesc, raw_width, rawdata, median,
                   exposure, stimulus, calls, metrics, response, entry,
                   options, params>>

\* lines 456-521 and 684-734, from exp_shift_value on
Configure ==
    /\ \/ pc = "exposed"
       \/ pc = "opened" /\ ~options.auto_exposure
    /\ LET exp_shift_value == IF entry = "process_raw"
                              THEN ExpShiftValueFile(options, exposure)
                              ELSE ExpShiftValueMemory(options, exposure)
       IN  params' = ExposureParams(exp_shift_value)
    /\ libraw' = [libraw EXCEPT !.params_written = TRUE]
    /\ pc' = "configured"
    /\ UNCHANGED <<inputs, tiles, task, demosaiced_tiles, next_tile, output,
                   weight_map, result, cdesc, raw_width, rawdata, median,
                   exposure, stimulus, calls, metrics, response, entry,
                   options>>

\* lines 580-586 and 793-799
Unpack ==
    /\ pc = "configured"
    /\ NeedsUnpack(options)
    /\ \E ok \in BOOLEAN :
          /\ libraw' = [libraw EXCEPT !.unpack_calls = @ + 1,
                                      !.unpack_failed = ~ok]
          /\ pc' = IF ok THEN "unpacked" ELSE "failed"
    /\ UNCHANGED <<inputs, tiles, task, demosaiced_tiles, next_tile, output,
                   weight_map, result, cdesc, raw_width, rawdata, median,
                   exposure, stimulus, calls, metrics, response, entry,
                   options, params>>

\* lines 589-596 and 802-809
DcrawProcess ==
    /\ \/ pc = "unpacked"
       \/ pc = "configured" /\ ~NeedsUnpack(options)
    /\ libraw' = [libraw EXCEPT !.dcraw_calls = @ + 1]
    /\ \E ret \in {0, 1} : pc' = IF ret # 0 THEN "failed" ELSE "processed"
    /\ UNCHANGED <<inputs, tiles, task, demosaiced_tiles, next_tile, output,
                   weight_map, result, cdesc, raw_width, rawdata, median,
                   exposure, stimulus, calls, metrics, response, entry,
                   options, params>>

NextProcess ==
    \/ OpenRaw
    \/ UnpackForExposure
    \/ CalculateAutoExposure
    \/ Configure
    \/ Unpack
    \/ DcrawProcess

SpecProcess == InitProcess /\ [][NextProcess]_vars

\* ================================================================== claims
Pixels == {<<x, y>> : x \in 0..(width - 1), y \in 0..(height - 1)}

\* output byte of channel ch (0..2) at pixel (x, y) of an RGB buffer
Rgb(buf, w, x, y, ch) == Get(buf, (y * w + x) * 3 + ch)

FullBuffer == Len(bayer_data) = width * height

\* C1: after demosaic has blended every tile (overlap >= 1, buffer of
\* width * height samples) every output pixel has accumulated weight > 0.
\* The code gives weight 0 to column 0 and row 0 of every tile.
C1_AllWeightsPositive ==
    (pc = "done" /\ overlap >= 1 /\ FullBuffer)
        => \A p \in 1..(width * height) : weight_map[p] > 0

\* C2: when some output pixel ends with zero accumulated weight, demosaic
\* reports a failure instead of returning the buffer as valid.
C2_GapReported ==
    (pc = "done" /\ \E p \in 1..(width * height) : weight_map[p] = 0)
        => result.status = "failed"

CeilDiv(a, b) == CHOOSE n \in 0..a : n * b >= a /\ (n = 0 \/ (n - 1) * b < a)

CoreLo(t) == t * tile_size

CoreHi(t, full) == Min((t + 1) * tile_size, full)

InCore(i, nx, x, y) ==
    LET tx == (i - 1) % nx
        ty == (i - 1) \div nx
    IN  /\ CoreLo(tx) <= x /\ x < CoreHi(tx, width)
        /\ CoreLo(ty) <= y /\ y < CoreHi(ty, height)

ExtentHoldsCore(i, nx) ==
    LET tx == (i - 1) % nx
        ty == (i - 1) \div nx
        t == tiles[i]
    IN  /\ t.x <= CoreLo(tx) /\ CoreHi(tx, width) <= t.x + t.width
        /\ t.y <= CoreLo(ty) /\ CoreHi(ty, height) <= t.y + t.height
        /\ t.x + t.width <= width /\ t.y + t.height <= height
        /\ Len(t.data) = t.width * t.height

\* C3: the cores [tx*tile_size, min((tx+1)*tile_size, width)) x (same in y)
\* of the extracted tiles partition the width x height grid, and each
\* tile's extent contains its core.
C3_CorePartition ==
    pc \in {"map", "blend", "done"} =>
        LET nx == CeilDiv(width, tile_size)
            ny == CeilDiv(height, tile_size)
        IN  /\ Len(tiles) = nx * ny
            /\ \A q \in Pixels :
                 Cardinality({i \in 1..Len(tiles) : InCore(i, nx, q[1], q[2])}) = 1
            /\ \A i \in 1..Len(tiles) : ExtentHoldsCore(i, nx)

C3_Witness ==
    /\ pc = "map"
    /\ Len(tiles) = 4
    /\ overlap = 1
    /\ width % tile_size # 0
    /\ height % tile_size # 0

IsUniform(c) ==
    \A i \in 1..Len(demosaiced_tiles) :
       \A k \in 1..Len(demosaiced_tiles[i].rgb) : demosaiced_tiles[i].rgb[k] = c

\* C4: blending tiles that all hold one uniform colour c gives an output
\* whose every byte is within 1 of c.
C4_UniformPreserved ==
    pc = "done" =>
        \A c \in 0..255 :
           IsUniform(c) => \A k \in 1..Len(result.rgb) : Abs(result.rgb[k] - c) <= 1

\* C5: for a constant Bayer input spanning two horizontally adjacent tiles,
\* neighbouring output pixels at the seam and in its overlap band differ by
\* at most 2 per channel.  Stated here for pixels off the image border only.
C5_SeamContinuity ==
    (/\ pc = "done"
     /\ bayer_data = MakeBayer("flat", width, height)
     /\ overlap >= 1
     /\ Len(tiles) = 2 /\ width > tile_size)
        => \A x \in 1..(width - 3), y \in 1..(height - 2), ch \in 0..2 :
              (x >= tile_size - overlap /\ x + 1 < tile_size + overlap)
                 => Abs(Rgb(result.rgb, width, x, y, ch)
                        - Rgb(result.rgb, width, x + 1, y, ch)) <= 2

\* C6: demosaic never panics or indexes out of bounds (short buffers and
\* white_level <= black_level included) and returns width * height * 3 bytes.
C6_NoPanicExactSize ==
    /\ pc # "panicked"
    /\ \A i \in DOMAIN task : task[i] # "panicked"
    /\ pc = "done" => (result.status = "ok" /\ Len(result.rgb) = width * height * 3)

C6_Witness ==
    /\ pc = "done"
    /\ Len(bayer_data) < width * height
    /\ white_level <= black_level
    /\ Len(tiles) >= 2
    /\ \E i \in 1..Len(tiles) :
         \E k \in 1..Len(tiles[i].data) : tiles[i].data[k] # 0

CellCount(p, x, y, c) ==
    Cardinality({d \in {<<0, 0>>, <<1, 0>>, <<0, 1>>, <<1, 1>>} :
                   ColorAt(p, x + d[1], y + d[2]) = c})

\* C7: color_at returns 0, 1 or 2 for every pattern and (x, y), depends only
\* on the parities, never reaches an unreachable!() arm, puts one Red, two
\* Green and one Blue in every 2x2 cell; so every pixel a tile visits has a
\* colour with an interpolation arm.  The pattern is fixed for the call, so
\* the table is examined on entry and the visited pixels in every state.
C7_ColorAtTotal ==
    /\ pc = "extract" =>
         \A x \in 0..MaxCoord, y \in 0..MaxCoord :
            /\ ColorAt(pattern, x, y) \in {0, 1, 2}
            /\ ColorAt(pattern, x, y) = ColorAt(pattern, x % 2, y % 2)
            /\ CellCount(pattern, x, y, 0) = 1
            /\ CellCount(pattern, x, y, 1) = 2
            /\ CellCount(pattern, x, y, 2) = 1
    /\ \A i \in 1..Len(tiles) :
         \A tx \in 0..(tiles[i].width - 1), ty \in 0..(tiles[i].height - 1) :
            ColorAt(pattern, GlobalCoord(tiles[i].x, tx),
                    GlobalCoord(tiles[i].y, ty)) \in {0, 1, 2}

C7_Witness ==
    /\ pc = "done"
    /\ pattern = "GBRG"
    /\ \E i \in 1..Len(tiles) :
         /\ tiles[i].x % 2 = 1
         /\ tiles[i].width >= 3 /\ tiles[i].height >= 3

WholeImage ==
    DemosaicBilinear(bayer_data, width, height, 0, 0, pattern,
                     black_level, white_level)

TileMatchesWhole(t, whole) ==
    \A tx \in 0..(t.width - 1), ty \in 0..(t.height - 1) :
       (/\ InLoopRange(tx, ty, t.width, t.height)
        /\ InLoopRange(t.x + tx, t.y + ty, width, height))
          => \A ch \in 0..2 :
                Rgb(t.rgb, t.width, tx, ty, ch)
                  = Rgb(whole, width, t.x + tx, t.y + ty, ch)

\* C8: for every tile, pattern and non-border tile pixel that is also a
\* non-border pixel of the image, the tile's RGB equals the RGB of one
\* bilinear demosaic over the whole buffer (buffer of width * height).
\* Checked while the map runs: the collected tiles do not change afterwards.
C8_AbsoluteParity ==
    (FullBuffer /\ pc = "map") =>
        LET whole == WholeImage
        IN  \A i \in DOMAIN task :
               task[i] = "done" => TileMatchesWhole(demosaiced_tiles[i], whole)

C8_Witness ==
    /\ FullBuffer
    /\ pc = "map"
    /\ \E i \in DOMAIN task :
         /\ task[i] = "done"
         /\ demosaiced_tiles[i].x % 2 = 1
         /\ demosaiced_tiles[i].width >= 3 /\ demosaiced_tiles[i].height >= 3
         /\ \E k \in 1..Len(demosaiced_tiles[i].rgb) :
              demosaiced_tiles[i].rgb[k] \notin {0, 255}

OnBorder(tx, ty, w, h) == tx = 0 \/ ty = 0 \/ tx = w - 1 \/ ty = h - 1

BorderIsZero(t) ==
    /\ Len(t.rgb) = t.width * t.height * 3
    /\ \A tx \in 0..(t.width - 1), ty \in 0..(t.height - 1), ch \in 0..2 :
          (OnBorder(tx, ty, t.width, t.height) \/ t.width < 3 \/ t.height < 3)
             => Rgb(t.rgb, t.width, tx, ty, ch) = 0

\* C9: in every DemosaicedTile the first and last row and column are
\* (0,0,0); a tile with width or height below 3 is all zero, has
\* width * height * 3 bytes, and its demosaic does not panic.
C9_BorderZero ==
    \A i \in DOMAIN task :
       /\ task[i] # "panicked"
       /\ task[i] = "done" => BorderIsZero(demosaiced_tiles[i])

C9_Witness ==
    /\ \E i \in DOMAIN task :
         /\ task[i] = "done"
         /\ demosaiced_tiles[i].width \in {1, 2}
         /\ demosaiced_tiles[i].height >= 1
    /\ \E i \in DOMAIN task :
         /\ task[i] = "done"
         /\ \E k \in 1..Len(demosaiced_tiles[i].rgb) : demosaiced_tiles[i].rgb[k] # 0

\* C10: once the demosaic step of a tile has panicked, the call never
\* reaches the blend and never returns an RGB buffer.
C10_PanicFailsCall ==
    (\E i \in DOMAIN task : task[i] = "panicked")
        => (pc \in {"map", "panicked"} /\ result = NoResult)

C10_Witness ==
    /\ pc = "panicked"
    /\ \E i \in DOMAIN task : task[i] = "panicked"
    /\ \E i \in DOMAIN task : task[i] = "done"

StartsTask ==
    \E i \in DOMAIN task :
       i \in DOMAIN task' /\ task[i] = "pending" /\ task'[i] # "pending"

WritesOutput == output' # output \/ weight_map' # weight_map

\* C11: the phases of one call are ordered. A tile task starts only when the
\* whole grid has been extracted; the output buffer and the weight map are
\* written only after every tile task has finished, and then by the one
\* sequence of steps of the calling thread (the allocation, then the tiles
\* one at a time in vector order), never while a task is still running.
C11_PhaseOrder ==
    [][/\ StartsTask =>
            /\ pc = "map"
            /\ Len(tiles) = CeilDiv(width, tile_size) * CeilDiv(height, tile_size)
            /\ tiles' = tiles
            /\ ~WritesOutput
       /\ WritesOutput =>
            /\ Len(task) = Len(tiles)
            /\ \A i \in DOMAIN task : task[i] = "done"
            /\ task' = task
            /\ demosaiced_tiles' = demosaiced_tiles
            /\ \/ pc = "map" /\ pc' = "blend" /\ next_tile' = 1
               \/ pc = "blend" /\ pc' = "blend" /\ next_tile' = next_tile + 1]_vars

C11_Witness ==
    /\ pc = "blend"
    /\ Len(task) >= 2
    /\ next_tile >= 3
    /\ \E k \in DOMAIN output : output[k] # 0

\* the call computed without any concurrency: extract every tile, demosaic
\* the tiles in grid order, blend them in grid order
SequentialDemosaic ==
    LET n == TilesX * TilesY
        all == [i \in 1..n |->
                  DemosaicTile(ExtractTile(bayer_data, width, height,
                                           (i - 1) % TilesX, (i - 1) \div TilesX,
                                           tile_size, overlap),
                               pattern, black_level, white_level)]
    IN  CombineTiles(all, width, height)

\* C12: the result does not depend on the schedule. Whatever the order in
\* which the tile tasks finish, a finished task has left at position i the
\* demosaic of the i-th extracted tile (same x, y, width, height, overlap),
\* computed from that tile and the parameters only; a task that has not run
\* has left nothing; a finished result is never written again and the
\* inputs are never written; and the returned buffer is the one the
\* sequential computation gives.
C12_ScheduleIndependent ==
    /\ [](/\ \A i \in DOMAIN task :
               /\ task[i] = "done" =>
                    /\ demosaiced_tiles[i] =
                         DemosaicTile(tiles[i], pattern, black_level, white_level)
                    /\ demosaiced_tiles[i].x = tiles[i].x
                    /\ demosaiced_tiles[i].y = tiles[i].y
                    /\ demosaiced_tiles[i].width = tiles[i].width
                    /\ demosaiced_tiles[i].height = tiles[i].height
                    /\ demosaiced_tiles[i].overlap = tiles[i].overlap
               /\ task[i] = "pending" => demosaiced_tiles[i] = NoTile
          /\ pc = "done" => result.rgb = SequentialDemosaic)
    /\ [][/\ inputs' = inputs
          /\ pc = "map" => tiles' = tiles
          /\ \A i \in DOMAIN task :
                task[i] = "done" =>
                   /\ task'[i] = "done"
                   /\ demosaiced_tiles'[i] = demosaiced_tiles[i]]_vars

C12_Witness ==
    /\ pc = "done"
    /\ Len(task) >= 3
    /\ \E k \in DOMAIN result.rgb : result.rgb[k] # 0

Perms(n) ==
    {p \in [1..n -> 1..n] : \A i, j \in 1..n : i # j => p[i] # p[j]}

\* C13: blending is order-independent: the bytes combine_tiles returned are
\* the bytes it returns for every permutation of the same tiles.
C13_OrderIndependent ==
    pc = "done" =>
       \A p \in Perms(Len(demosaiced_tiles)) :
          CombineTiles([i \in 1..Len(demosaiced_tiles) |-> demosaiced_tiles[p[i]]],
                       width, height) = result.rgb

Analysed == pc = "exposed" /\ ~rawdata.is_null

\* C14: for every median bin m the percentile loop yields, 0 included,
\* calculate_auto_exposure returns log2(118 / m) limited to [-2.0, +3.0] when
\* the magnitude of that limited value exceeds 0.3 and exactly 0.0 otherwise:
\* every result is in [-2.0, +3.0], no non-zero result has magnitude <= 0.3,
\* and a median in the tolerance band around 118 gives exactly 0.0.
C14_ExposureValue ==
    Analysed =>
       LET ev == IF median = 0 THEN PosInf ELSE Log2Micro[median]
           limited == IF ev > MaxEv THEN MaxEv ELSE IF ev < MinEv THEN MinEv ELSE ev
       IN  /\ median \in 0..(HistogramBins - 1)
           /\ Abs(limited) > SignificantEv => exposure = limited
           /\ Abs(limited) <= SignificantEv => exposure = 0
           /\ MinEv <= exposure /\ exposure <= MaxEv
           /\ exposure # 0 => Abs(exposure) > SignificantEv
           /\ median = TargetMedian => exposure = 0

C14_Witness ==
    /\ Analysed
    /\ median = 0
    /\ exposure = MaxEv

\* C15: the estimate is monotone in the median: above the target it is
\* never positive and below the target never negative, a median of twice
\* the target or more gives a negative value and one of half the target or
\* less a positive value, the magnitude does not decrease as the median
\* moves further from the target on either side, and it stays within
\* [-2.0, +3.0].
C15_Monotone ==
    Analysed =>
       /\ median > TargetMedian => exposure <= 0
       /\ median < TargetMedian => exposure >= 0
       /\ median >= 2 * TargetMedian => exposure < 0
       /\ 2 * median <= TargetMedian => exposure > 0
       /\ \A m2 \in 0..(HistogramBins - 1) :
             (\/ m2 <= median /\ median <= TargetMedian
              \/ m2 >= median /\ median >= TargetMedian)
                => Abs(AutoExposure(m2)) >= Abs(exposure)
       /\ MinEv <= exposure /\ exposure <= MaxEv

C15_Witness ==
    /\ Analysed
    /\ median > 2 * TargetMedian
    /\ exposure < 0 - 1000000

PatternBytes(p) ==
    CASE p = "RGGB" -> <<82, 71, 71, 66>>
      [] p = "GRBG" -> <<71, 82, 66, 71>>
      [] p = "GBRG" -> <<71, 66, 82, 71>>
      [] p = "BGGR" -> <<66, 71, 71, 82>>

FirstFour(c) == <<c[1] % 256, c[2] % 256, c[3] % 256, c[4] % 256>>

\* C16: from_cdesc maps the descriptors RGGB, GRBG, GBRG and BGGR to the
\* pattern of the same name and every other descriptor to RGGB; it always
\* yields a pattern.
C16_FromCdesc ==
    (pc # "open" /\ cdesc # <<>>) =>
       /\ pattern \in Patterns
       /\ \A p \in Patterns : FirstFour(cdesc) = PatternBytes(p) => pattern = p
       /\ (\A p \in Patterns : FirstFour(cdesc) # PatternBytes(p)) => pattern = "RGGB"

C16_Witness ==
    /\ pc = "done"
    /\ pattern = "GBRG"
    /\ FirstFour(cdesc) = PatternBytes("GBRG")

\* C17: for every operation name stimulate does not dispatch, the call
\* returns Ok with ok = false and the error "UnsupportedOperation", never an
\* Err, and records exactly one failed request (and no successful one).
C17_UnsupportedOperation ==
    [][(calls' = calls + 1 /\ stimulus'.op \notin DispatchedOps) =>
          /\ response'.kind = "Ok"
          /\ ~response'.ok
          /\ response'.error = "UnsupportedOperation"
          /\ metrics'.failed_requests = metrics.failed_requests + 1
          /\ metrics'.total_requests = metrics.total_requests + 1
          /\ metrics'.successful_requests = metrics.successful_requests
          /\ metrics'.operations = metrics.operations]_vars

C17_Witness ==
    /\ stimulus.op = "invalid.operation"
    /\ response.kind = "Ok"
    /\ response.error = "UnsupportedOperation"
    /\ metrics.failed_requests = 2
    /\ metrics.successful_requests = 1

\* C18: a supported operation stimulated with a required input missing
\* returns Ok with ok = false and an error string, not an Err.
C18_MissingInputIsResponse ==
    (calls > 0 /\ MissingInputs(stimulus.op, stimulus.input) # {}
               /\ stimulus.op \in HandledOps) =>
       /\ response.kind = "Ok"
       /\ ~response.ok
       /\ response.error # ""

\* C19: the card has exactly the 7 functions audio.preprocess,
\* audio.mel_spectrogram, video.extract_frames, image.preprocess,
\* raw.preview, raw.metadata and media.capabilities, so every handled
\* operation is advertised and a media.capabilities response lists at least 7.
C19_CardListsSeven ==
    (calls > 0 /\ stimulus.op = "media.capabilities") =>
       /\ response.kind = "Ok"
       /\ Len(response.functions) = 7
       /\ {response.functions[k] : k \in DOMAIN response.functions} = HandledOps

\* C20: the raw sample process_raw_tiled uses for image position (x, y) is
\* the one the sensor buffer holds at row y, column x, with rows raw_width
\* apart, also when raw_width > width.
C20_RowStride ==
    (pc \in {"map", "blend", "done"} /\ raw_width > 0) =>
       \A i \in DOMAIN tiles :
          \A tx \in 0..(tiles[i].width - 1), ty \in 0..(tiles[i].height - 1) :
             Get(tiles[i].data, ty * tiles[i].width + tx)
                = SensorSample(tiles[i].x + tx, tiles[i].y + ty)

\* the weight of the spec for tile pixel (tx, ty), as a numerator over
\* overlap * overlap: the ramp of the distance to the nearest edge on each axis
EdgeRamp(d, ov) == IF ov = 0 THEN 1 ELSE Min(ov, d)

EdgeWeight(tile, tx, ty) ==
    EdgeRamp(Min(tx, tile.width - 1 - tx), tile.overlap)
    * EdgeRamp(Min(ty, tile.height - 1 - ty), tile.overlap)

\* C21: the weight combine_tiles adds for tile pixel (tx, ty) is
\* ramp(min(tx, tw-1-tx)) * ramp(min(ty, th-1-ty)) with ramp(d) =
\* min(1, d / overlap), and 1 when overlap = 0: 1 in the interior, symmetric
\* between opposite edges, 0 on the four edge rows and columns.
C21_EdgeDistanceWeight ==
    [][(pc = "blend" /\ next_tile' = next_tile + 1) =>
          LET tile == demosaiced_tiles[next_tile]
          IN  \A tx \in 0..(tile.width - 1), ty \in 0..(tile.height - 1) :
                 (tile.x + tx < width /\ tile.y + ty < height) =>
                    LET p == (tile.y + ty) * width + tile.x + tx + 1
                    IN  weight_map'[p] - weight_map[p] = EdgeWeight(tile, tx, ty)]_vars

Extracted == pc \in {"map", "blend", "done"}

\* C22: demosaic extracts ceil(width / tile_size) * ceil(height / tile_size)
\* tiles in row-major order of (ty, tx); tile (tx, ty) starts at
\* max(0, t * tile_size - overlap) and ends at
\* min((t + 1) * tile_size + overlap, full) on each axis. The sequence is
\* a function of the inputs.
C22_TileGrid ==
    Extracted =>
       LET nx == CeilDiv(width, tile_size)
           ny == CeilDiv(height, tile_size)
       IN  /\ Len(tiles) = nx * ny
           /\ \A ty \in 0..(ny - 1), tx \in 0..(nx - 1) :
                 LET t == tiles[ty * nx + tx + 1]
                     ox == IF tx * tile_size > overlap THEN tx * tile_size - overlap ELSE 0
                     oy == IF ty * tile_size > overlap THEN ty * tile_size - overlap ELSE 0
                 IN  /\ t.x = ox
                     /\ t.y = oy
                     /\ t.x + t.width = Min((tx + 1) * tile_size + overlap, width)
                     /\ t.y + t.height = Min((ty + 1) * tile_size + overlap, height)
                     /\ t.overlap = overlap

C22_Witness ==
    /\ pc = "map"
    /\ Len(tiles) >= 3
    /\ \E i \in DOMAIN tiles :
          /\ tiles[i].x > 0
          /\ tiles[i].x + tiles[i].width < width

\* C23: every extracted tile is non-empty and inside the image: on both
\* axes 0 <= origin < end <= full size, the extent is at least 1 and at most
\* tile_size + 2 * overlap; with a buffer of width * height samples every
\* source index read is inside the buffer and the tile holds the samples
\* of its rectangle.
C23_TileInsideBuffer ==
    Extracted =>
       \A i \in DOMAIN tiles :
          LET t == tiles[i]
          IN  /\ 0 <= t.x /\ t.x < t.x + t.width /\ t.x + t.width <= width
              /\ 0 <= t.y /\ t.y < t.y + t.height /\ t.y + t.height <= height
              /\ t.width >= 1 /\ t.width <= tile_size + 2 * overlap
              /\ t.height >= 1 /\ t.height <= tile_size + 2 * overlap
              /\ Len(t.data) = t.width * t.height
              /\ FullBuffer =>
                   \A x \in 0..(t.width - 1), y \in 0..(t.height - 1) :
                      /\ (t.y + y) * width + t.x + x < Len(bayer_data)
                      /\ t.data[y * t.width + x + 1]
                            = bayer_data[(t.y + y) * width + t.x + x + 1]

C23_Witness ==
    /\ pc = "map"
    /\ FullBuffer
    /\ \E i \in DOMAIN tiles :
          /\ tiles[i].x > 0
          /\ tiles[i].x + tiles[i].width = width
          /\ tiles[i].width < tile_size + 2 * overlap
          /\ \E k \in DOMAIN tiles[i].data : tiles[i].data[k] # 0

\* the (r, g, b) before scaling of tile pixel (tx, ty) of the i-th tile
TilePixel(i, tx, ty) ==
    PixelRGB(tiles[i].data, tiles[i].width, ty * tiles[i].width + tx,
             tiles[i].x + tx, tiles[i].y + ty, pattern, black_level)

Interior(i) ==
    {c \in (1..(tiles[i].width - 2)) \X (1..(tiles[i].height - 2)) : TRUE}

\* C24: for white_level > black_level every output byte of a non-border
\* tile pixel is min(255, floor(s * 255 / (white_level - black_level))) for
\* the black-subtracted sample or neighbour average s; so s = 0 gives 0 and
\* s >= white_level - black_level gives 255.
C24_ScaleFloor ==
    white_level > black_level =>
       \A i \in DOMAIN task :
          task[i] = "done" =>
             \A c \in Interior(i), ch \in 0..2 :
                LET s == TilePixel(i, c[1], c[2])[ch + 1]
                IN  Rgb(demosaiced_tiles[i].rgb, tiles[i].width, c[1], c[2], ch)
                       = Min(255, (s * 255) \div (white_level - black_level))

\* C25: every sample averaged into an output channel has that channel's
\* CFA colour at its absolute position. With a buffer whose samples are
\* 10, 105, 200 at Red, Green, Blue sites, every non-border pixel of every
\* demosaiced tile is (10, 105, 200), for all four patterns.
C25_NeighbourColours ==
    (bayer_data = CfaBayer(pattern, width, height) /\ black_level = 0
                                                    /\ white_level = 255) =>
       \A i \in DOMAIN task :
          task[i] = "done" =>
             \A c \in Interior(i) :
                /\ Rgb(demosaiced_tiles[i].rgb, tiles[i].width, c[1], c[2], 0) = 10
                /\ Rgb(demosaiced_tiles[i].rgb, tiles[i].width, c[1], c[2], 1) = 105
                /\ Rgb(demosaiced_tiles[i].rgb, tiles[i].width, c[1], c[2], 2) = 200

C25_Witness ==
    /\ bayer_data = CfaBayer(pattern, width, height)
    /\ width >= 4
    /\ height >= 3
    /\ pattern = "GBRG"
    /\ \E i \in DOMAIN task :
          /\ task[i] = "done"
          /\ tiles[i].x > 0
          /\ Cardinality(Interior(i)) >= 2

\* the number of sampled pixels in bins 0..b
CumulativeCount(b) ==
    Cardinality({k \in DOMAIN rawdata.samples : Bin(rawdata.samples[k]) <= b})

\* C26: the median calculate_auto_exposure uses is the smallest bin whose
\* cumulative count reaches half of the number of samples put in the
\* histogram, for every image size and every histogram.
C26_MedianIsHalfCount ==
    Analysed =>
       /\ 2 * CumulativeCount(median) >= Len(rawdata.samples)
       /\ \A b \in 0..(median - 1) : 2 * CumulativeCount(b) < Len(rawdata.samples)

\* C28: tiling does not change the image: with tile_size >= 3 and
\* overlap >= 1 every output pixel off the outermost ring of the image has
\* in every channel the value of the whole-image bilinear demosaic, up to 1.
C28_TilingInvariant ==
    (pc = "done" /\ FullBuffer /\ tile_size >= 3 /\ overlap >= 1) =>
       LET whole == WholeImage
       IN  \A x \in 1..(width - 2), y \in 1..(height - 2), ch \in 0..2 :
              Abs(Rgb(result.rgb, width, x, y, ch) - Rgb(whole, width, x, y, ch)) <= 1

\* C30: after any sequence of completed stimulate calls the metrics satisfy
\* total_requests = successful_requests + failed_requests and
\* total_requests = the number of calls made.
C30_EveryCallCounted ==
    pc = "serving" =>
       /\ metrics.total_requests = metrics.successful_requests + metrics.failed_requests
       /\ metrics.total_requests = calls

ExpectedShift ==
    IF options.auto_exposure
    THEN Some(Pow2Micro(exposure))
    ELSE IF options.exposure_compensation.some
    THEN Some(Pow2Micro(options.exposure_compensation.value))
    ELSE None

UnpackedOnce ==
    /\ libraw.unpack_calls <= 1
    /\ (pc \in {"analyze", "exposed", "unpacked", "processed"} \/ libraw.dcraw_calls > 0)
          => (libraw.unpack_calls = 1 /\ ~libraw.unpack_failed)
    /\ libraw.dcraw_calls > 0 => libraw.params_written
    /\ libraw.unpack_failed => (pc = "failed" /\ libraw.dcraw_calls = 0)

DcrawAfterUnpack ==
    libraw'.dcraw_calls > libraw.dcraw_calls =>
       /\ libraw.unpack_calls = 1
       /\ ~libraw.unpack_failed
       /\ libraw.params_written
       /\ libraw' = [libraw EXCEPT !.dcraw_calls = 1]

\* C29: whenever libraw_dcraw_process is called, unpack has been called
\* exactly once before it (with auto_exposure before calculate_auto_exposure
\* and not again), the exposure parameters have been written, and after a
\* failed unpack the function has returned without libraw_dcraw_process.
C29_UnpackOnceBeforeProcess == []UnpackedOnce /\ [][DcrawAfterUnpack]_vars

\* libraw_dcraw_process has run with auto_exposure after a single unpack
C29_Witness ==
    /\ pc = "processed"
    /\ options.auto_exposure
    /\ libraw = [unpack_calls |-> 1, unpack_failed |-> FALSE,
                 params_written |-> TRUE, dcraw_calls |-> 1]

====
